---- MODULE Spec2Model ----
(***************************************************************************)
(* A model of aspen's `check` subcommand (src/src/check.rs): discovery of  *)
(* .vbp project files, the rayon parallel map of check_project over the    *)
(* discovered projects, the per-project detail report and the overall      *)
(* summary.                                                                *)
(*                                                                         *)
(* The external collaborators are modelled by their outcomes: a file on    *)
(* disk is described by what stat / read / parse do with it, a WalkDir     *)
(* iterator by the sequence of entries it yields.  A Rust panic (an        *)
(* `unwrap` on an Err) is the outcome "Panic".                             *)
(***************************************************************************)
EXTENDS Integers, Sequences, FiniteSets, TLC

\* Longest WalkDir entry sequence explored.
MaxEntries == 2

VARIABLES
    project_path,    \* the target path: [exists, is_dir, walk]
    check_settings,  \* the four check_* toggles of CheckSettings
    pc,              \* position of check_subcommand
    found_projects,  \* the filtered WalkDir entries (directory mode)
    slots,           \* the output slots of collect_into_vec
    finish_order,    \* indices of the map closures, in the order they ended
    panicked,        \* indices of the map closures that panicked
    io_log,          \* per checked project: the stat/read/parse calls made
    check_summary,   \* Vec<CheckResults>
    reported,        \* number of results the report_check loop has printed
    stdout,          \* what println! has written, in order
    exit             \* how the process ended: "none", "Ok" or "panic"

vars == << project_path, check_settings, pc, found_projects, slots, finish_order,
           panicked, io_log, check_summary, reported, stdout, exit >>

----------------------------------------------------------------------------
(* The files on disk.                                                      *)

\* What the filesystem and the vb6parse parsers do with a referenced file.
\*   missing     : std::fs::metadata is Err
\*   unreadable  : metadata is Ok, std::fs::read is Err
\*   non_english : parse is Err with kind LikelyNonEnglishCharacterSet
\*   parse_error : parse is Err with another kind
\*   valid       : parse is Ok
\* (a sub-project reference is only stat'd: anything but missing exists)
Categories == <<"SubProject", "Class", "Module", "Form">>

NoRefs == [SubProject |-> <<>>, Class |-> <<>>, Module |-> <<>>, Form |-> <<>>]

\* A .vbp file: what reading and parsing its own bytes does ("unreadable",
\* "parse_error", "valid") and the references its bytes name.
CleanProject ==
    [desc |-> "valid",
     refs |-> [SubProject |-> <<"valid">>, Class |-> <<"valid">>,
               Module |-> <<"valid">>, Form |-> <<"valid">>]]

OneMissingProject ==
    [desc |-> "valid", refs |-> [NoRefs EXCEPT !.Class = <<"missing">>]]

MixedProject ==
    [desc |-> "valid",
     refs |-> [SubProject |-> <<"valid", "missing">>,
               Class |-> <<"missing", "valid">>,
               Module |-> <<"parse_error">>,
               Form |-> <<"non_english", "valid">>]]

BadProject ==
    [desc |-> "parse_error",
     refs |-> [NoRefs EXCEPT !.Class = <<"missing">>, !.Form = <<"valid">>]]

UnreadableProject ==
    [desc |-> "unreadable",
     refs |-> [NoRefs EXCEPT !.SubProject = <<"missing">>, !.Module = <<"valid">>]]

UnreadableRefProject ==
    [desc |-> "valid",
     refs |-> [SubProject |-> <<>>, Class |-> <<"parse_error", "non_english">>,
               Module |-> <<"valid", "unreadable">>, Form |-> <<"missing">>]]

ProjectPool == {CleanProject, OneMissingProject, MixedProject, BadProject,
                UnreadableProject, UnreadableRefProject}

\* One item of the WalkDir iterator: Err(walkdir::Error), or Ok(DirEntry)
\* for a file with or without the "vbp" extension.
EntryShapes ==
    {[kind |-> "err", file |-> CleanProject],
     [kind |-> "other", file |-> CleanProject]}
    \cup {[kind |-> "vbp", file |-> p] : p \in ProjectPool}

\* The n-th item of a walk: paths are distinct, the position names the path.
MkEntry(n, shape) == [path |-> n, kind |-> shape.kind, file |-> shape.file]

Walks ==
    UNION {[1..n -> EntryShapes] : n \in 0..MaxEntries}

Settings ==
    [check_forms : BOOLEAN, check_modules : BOOLEAN,
     check_classes : BOOLEAN, check_references : BOOLEAN]

----------------------------------------------------------------------------
(* CheckResults and check_project.                                         *)

EmptyResults(path) ==
    [project_path |-> path, parsing_errors |-> <<>>,
     non_english_files |-> <<>>, missing_files |-> <<>>]

\* CategoryEnabled with the form loop left unguarded.
CategoryEnabled_FormsUnguarded(settings, cat) ==
    CASE cat = "SubProject" -> settings.check_references
      [] cat = "Class"      -> settings.check_classes
      [] cat = "Module"     -> settings.check_modules
      [] cat = "Form"       -> TRUE

\* The toggle of CheckSettings that guards a category's loop.
CategoryEnabled(settings, cat) ==
    CASE cat = "SubProject" -> settings.check_references
      [] cat = "Class"      -> settings.check_classes
      [] cat = "Module"     -> settings.check_modules
      [] cat = "Form"       -> settings.check_forms

\* VB6ClassFile::parse / VB6ModuleFile::parse / VB6FormFile::parse.
ParseFile(st) ==
    CASE st = "non_english" -> [is_err |-> TRUE, kind |-> "LikelyNonEnglishCharacterSet"]
      [] st = "parse_error" -> [is_err |-> TRUE, kind |-> "Other"]
      [] OTHER              -> [is_err |-> FALSE, kind |-> "None"]

Event(op, cat, k) == [op |-> op, cat |-> cat, ref |-> k]

Item(msg, cat, k) == [msg |-> msg, cat |-> cat, ref |-> k]

\* One iteration of the sub-project loop: stat only.
CheckSubProjectRef(k, st, acc) ==
    LET io1 == Append(acc.io, Event("stat", "SubProject", k)) IN
    IF st = "missing"
    THEN [acc EXCEPT !.io = io1,
                     !.result.missing_files =
                         Append(@, Item("Sub-Project Reference not found", "SubProject", k))]
    ELSE [acc EXCEPT !.io = io1]

\* CheckFileRef with the two `continue`s of the failure branch lost: a
\* non-English file is pushed to parsing_errors as well.
CheckFileRef_BothBuckets(cat, k, st, acc) ==
    LET io1 == Append(acc.io, Event("stat", cat, k))
        io2 == Append(io1, Event("read", cat, k))
        io3 == Append(io2, Event("parse", cat, k))
        parsed == ParseFile(st)
    IN  IF st = "missing"
        THEN [acc EXCEPT !.io = io1,
                         !.result.missing_files = Append(@, Item("not found", cat, k))]
        ELSE IF st = "unreadable"
        THEN [acc EXCEPT !.io = io2, !.status = "Panic"]
        ELSE IF parsed.is_err
        THEN IF parsed.kind = "LikelyNonEnglishCharacterSet"
             THEN [acc EXCEPT !.io = io3,
                              !.result.non_english_files =
                                  Append(@, Item("likely not in an English character set", cat, k)),
                              !.result.parsing_errors = Append(@, Item("parse error", cat, k))]
             ELSE [acc EXCEPT !.io = io3,
                              !.result.parsing_errors = Append(@, Item("parse error", cat, k))]
        ELSE [acc EXCEPT !.io = io3]

\* CheckFileRef with the `continue` after the missing-file push lost: the
\* read of the missing file is attempted.
CheckFileRef_NoContinueOnMissing(cat, k, st, acc) ==
    LET io1 == Append(acc.io, Event("stat", cat, k))
        io2 == Append(io1, Event("read", cat, k))
        io3 == Append(io2, Event("parse", cat, k))
        parsed == ParseFile(st)
    IN  IF st = "missing"
        THEN [acc EXCEPT !.io = io2, !.status = "Panic",
                         !.result.missing_files = Append(@, Item("not found", cat, k))]
        ELSE IF st = "unreadable"
        THEN [acc EXCEPT !.io = io2, !.status = "Panic"]
        ELSE IF parsed.is_err
        THEN IF parsed.kind = "LikelyNonEnglishCharacterSet"
             THEN [acc EXCEPT !.io = io3,
                              !.result.non_english_files =
                                  Append(@, Item("likely not in an English character set", cat, k))]
             ELSE [acc EXCEPT !.io = io3,
                              !.result.parsing_errors = Append(@, Item("parse error", cat, k))]
        ELSE [acc EXCEPT !.io = io3]

\* One iteration of the class, module or form loop.
CheckFileRef(cat, k, st, acc) ==
    LET io1 == Append(acc.io, Event("stat", cat, k))
        io2 == Append(io1, Event("read", cat, k))
        io3 == Append(io2, Event("parse", cat, k))
        parsed == ParseFile(st)
    IN  IF st = "missing"
        THEN [acc EXCEPT !.io = io1,
                         !.result.missing_files = Append(@, Item("not found", cat, k))]
        ELSE IF st = "unreadable"
        THEN [acc EXCEPT !.io = io2, !.status = "Panic"]
        ELSE IF parsed.is_err
        THEN IF parsed.kind = "LikelyNonEnglishCharacterSet"
             THEN [acc EXCEPT !.io = io3,
                              !.result.non_english_files =
                                  Append(@, Item("likely not in an English character set", cat, k))]
             ELSE [acc EXCEPT !.io = io3,
                              !.result.parsing_errors = Append(@, Item("parse error", cat, k))]
        ELSE [acc EXCEPT !.io = io3]

RECURSIVE CheckLoop(_, _, _, _)
\* The `for` loop over one category's references, from the k-th on.
CheckLoop(cat, refs, k, acc) ==
    IF k > Len(refs) \/ acc.status = "Panic"
    THEN acc
    ELSE CheckLoop(cat, refs, k + 1,
                   IF cat = "SubProject"
                   THEN CheckSubProjectRef(k, refs[k], acc)
                   ELSE CheckFileRef(cat, k, refs[k], acc))

\* `if check_settings.check_X { for ... }`
CheckCategory(settings, cat, file, acc) ==
    IF acc.status = "Panic" \/ ~CategoryEnabled(settings, cat)
    THEN acc
    ELSE CheckLoop(cat, file.refs[cat], 1, acc)

\* check_project without the early return on a descriptor parse failure.
check_project_NoEarlyReturn(path, file, settings) ==
    LET start == [status |-> "Ok", result |-> EmptyResults(path),
                  io |-> <<Event("read", "Project", 0)>>]
    IN  IF file.desc = "unreadable"
        THEN [start EXCEPT !.status = "Panic"]
        ELSE LET loaded == [start EXCEPT !.io = Append(@, Event("parse", "Project", 0))]
                 parsed == IF file.desc = "parse_error"
                           THEN [loaded EXCEPT !.result.parsing_errors =
                                     Append(@, Item("parse error", "Project", 0))]
                           ELSE loaded
             IN  CheckCategory(settings, "Form", file,
                 CheckCategory(settings, "Module", file,
                 CheckCategory(settings, "Class", file,
                 CheckCategory(settings, "SubProject", file, parsed))))

\* check_project: [status, result, io]; status is "Ok" (Ok(check_results))
\* or "Panic" (an unwrap on a failed std::fs::read).
check_project(path, file, settings) ==
    LET start == [status |-> "Ok", result |-> EmptyResults(path),
                  io |-> <<Event("read", "Project", 0)>>]
    IN  IF file.desc = "unreadable"
        THEN [start EXCEPT !.status = "Panic"]
        ELSE LET loaded == [start EXCEPT !.io = Append(@, Event("parse", "Project", 0))] IN
             IF file.desc = "parse_error"
             THEN [loaded EXCEPT !.result.parsing_errors =
                                     Append(@, Item("parse error", "Project", 0))]
             ELSE CheckCategory(settings, "Form", file,
                  CheckCategory(settings, "Module", file,
                  CheckCategory(settings, "Class", file,
                  CheckCategory(settings, "SubProject", file, loaded))))

----------------------------------------------------------------------------
(* Discovery and the parallel map.                                         *)

is_project_file(entry) ==
    IF entry.kind = "err" THEN FALSE ELSE entry.kind = "vbp"

\* The closure of found_projects.par_iter().map(...).
MapClosure(entry, settings) ==
    IF entry.kind = "err"
    THEN \* project_path.as_ref().unwrap() on an Err
         [status |-> "Panic", result |-> EmptyResults(entry.path), io |-> <<>>]
    ELSE check_project(entry.path, entry.file, settings)

\* SlotOf for a collector that appends as items complete.
SlotOf_AppendAsCompleted(index, rank) == rank

\* collect_into_vec: the output slot of the item at `index`, which is the
\* `rank`-th item to complete.
SlotOf(index, rank) == index

Pending == [project_path |-> 0, parsing_errors |-> <<>>,
            non_english_files |-> <<>>, missing_files |-> <<>>]

\* `match check_project(..) { Ok(result) => result, Err(e) => CheckResults{..} }`
ResultOrError(outcome, path) ==
    IF outcome.status = "Err"
    THEN [EmptyResults(path) EXCEPT !.parsing_errors = <<Item("error", "Project", 0)>>]
    ELSE outcome.result

----------------------------------------------------------------------------
(* The reports.                                                            *)

RECURSIVE ItemLines(_, _, _)
\* `for x in &check_results.<section> { println!("  {}", x) }`
ItemLines(section, items, k) ==
    IF k > Len(items)
    THEN <<>>
    ELSE <<[kind |-> "item", section |-> section, item |-> items[k]]>>
         \o ItemLines(section, items, k + 1)

\* One category of report_check: its title and its entries, when not empty.
SectionLines(section, items) ==
    IF Len(items) # 0
    THEN <<[kind |-> "title", section |-> section]>> \o ItemLines(section, items, 1)
    ELSE <<>>

\* report_check with the parsing errors printed before the missing files.
report_check_ParsingErrorsFirst(r) ==
    IF Len(r.parsing_errors) = 0 /\ Len(r.non_english_files) = 0
       /\ Len(r.missing_files) = 0
    THEN <<>>
    ELSE <<[kind |-> "header", project_path |-> r.project_path]>>
         \o SectionLines("Parsing Errors", r.parsing_errors)
         \o SectionLines("Missing Files", r.missing_files)
         \o SectionLines("Non-English Files", r.non_english_files)

\* report_check: the lines printed for one CheckResults.
report_check(r) ==
    IF Len(r.parsing_errors) = 0 /\ Len(r.non_english_files) = 0
       /\ Len(r.missing_files) = 0
    THEN <<>>
    ELSE <<[kind |-> "header", project_path |-> r.project_path]>>
         \o SectionLines("Missing Files", r.missing_files)
         \o SectionLines("Parsing Errors", r.parsing_errors)
         \o SectionLines("Non-English Files", r.non_english_files)

RECURSIVE FirstReturn(_, _)
\* A chain of `if cond { println!(..); return; }`: what gets printed.
FirstReturn(cases, k) ==
    IF k > Len(cases)
    THEN <<>>
    ELSE IF cases[k].cond THEN <<cases[k].msg>> ELSE FirstReturn(cases, k + 1)

\* The 8 cases of report_single_check_summary, in source order.  A message
\* carries the template (its table and case) and the values it formats.
SingleCases(s) ==
    LET e == Len(s.parsing_errors)
        n == Len(s.non_english_files)
        m == Len(s.missing_files)
        T(c) == [kind |-> "summary", table |-> "single", case |-> c]
    IN << [cond |-> e = 0 /\ n = 0 /\ m = 0,
           msg  |-> T(<<0, 0, 0>>) @@ [project_path |-> s.project_path]],
          [cond |-> e = 0 /\ n = 0 /\ m # 0,
           msg  |-> T(<<0, 0, 1>>) @@ [missing |-> m, project_path |-> s.project_path]],
          [cond |-> e = 0 /\ n # 0 /\ m = 0,
           msg  |-> T(<<0, 1, 0>>) @@ [non_english |-> n]],
          [cond |-> e = 0 /\ n # 0 /\ m # 0,
           msg  |-> T(<<0, 1, 1>>) @@ [missing |-> m, non_english |-> n]],
          [cond |-> e # 0 /\ n = 0 /\ m = 0,
           msg  |-> T(<<1, 0, 0>>) @@ [errors |-> e]],
          [cond |-> e # 0 /\ n = 0 /\ m # 0,
           msg  |-> T(<<1, 0, 1>>) @@ [missing |-> m, errors |-> e]],
          [cond |-> e # 0 /\ n # 0 /\ m = 0,
           msg  |-> T(<<1, 1, 0>>) @@ [errors |-> e, non_english |-> n]],
          [cond |-> e # 0 /\ n # 0 /\ m # 0,
           msg  |-> T(<<1, 1, 1>>) @@ [missing |-> m, errors |-> e, non_english |-> n]] >>

report_single_check_summary(s) == FirstReturn(SingleCases(s), 1)

RECURSIVE FoldLen(_, _, _)
\* summary.iter().fold(0, |acc, x| acc + x.<field>.len()), from the k-th on
FoldLen(summary, field, k) ==
    IF k > Len(summary)
    THEN 0
    ELSE Len(summary[k][field]) + FoldLen(summary, field, k + 1)

\* The 8 cases of the multi-project part of report_check_summary.
MultiCases(summary) ==
    LET project_count == Len(summary)
        total_error_count == FoldLen(summary, "parsing_errors", 1)
        total_missed_file_count == FoldLen(summary, "missing_files", 1)
        total_non_english_file_count == FoldLen(summary, "non_english_files", 1)
        e == total_error_count
        n == total_non_english_file_count
        m == total_missed_file_count
        T(c) == [kind |-> "summary", table |-> "multi", case |-> c,
                 projects |-> project_count]
    IN << [cond |-> e = 0 /\ n = 0 /\ m = 0,
           msg  |-> T(<<0, 0, 0>>)],
          [cond |-> e = 0 /\ n = 0 /\ m # 0,
           msg  |-> T(<<0, 0, 1>>) @@ [missing |-> total_non_english_file_count]],
          [cond |-> e = 0 /\ n # 0 /\ m = 0,
           msg  |-> T(<<0, 1, 0>>) @@ [non_english |-> total_non_english_file_count]],
          [cond |-> e = 0 /\ n # 0 /\ m # 0,
           msg  |-> T(<<0, 1, 1>>) @@ [missing |-> total_missed_file_count,
                                       non_english |-> total_non_english_file_count]],
          [cond |-> e # 0 /\ n = 0 /\ m = 0,
           msg  |-> T(<<1, 0, 0>>) @@ [errors |-> total_error_count]],
          [cond |-> e # 0 /\ n = 0 /\ m # 0,
           msg  |-> T(<<1, 0, 1>>) @@ [missing |-> total_missed_file_count,
                                       errors |-> total_error_count]],
          [cond |-> e # 0 /\ n # 0 /\ m = 0,
           msg  |-> T(<<1, 1, 0>>) @@ [errors |-> total_error_count,
                                       non_english |-> total_non_english_file_count]],
          [cond |-> e # 0 /\ n # 0 /\ m # 0,
           msg  |-> T(<<1, 1, 1>>) @@ [missing |-> total_missed_file_count,
                                       errors |-> total_error_count,
                                       non_english |-> total_non_english_file_count]] >>

\* report_check_summary without the dispatch to the single-project table.
report_check_summary_AlwaysMulti(summary) == FirstReturn(MultiCases(summary), 1)

report_check_summary(summary) ==
    IF Len(summary) = 1
    THEN report_single_check_summary(summary[1])
    ELSE FirstReturn(MultiCases(summary), 1)

----------------------------------------------------------------------------
(* check_subcommand.                                                       *)

\* The items of the map (or the single project) that have ended.
Ended == {finish_order[k] : k \in DOMAIN finish_order}

Init ==
    /\ \E exists \in BOOLEAN, is_dir \in BOOLEAN, w \in Walks :
          /\ ~exists => (~is_dir /\ w = <<>>)
          /\ (exists /\ ~is_dir) => (Len(w) = 1 /\ w[1].kind = "vbp")
          /\ project_path = [exists |-> exists, is_dir |-> is_dir,
                             walk |-> [n \in 1..Len(w) |-> MkEntry(n, w[n])]]
    /\ check_settings \in Settings
    /\ pc = "start"
    /\ found_projects = <<>>
    /\ slots = <<>>
    /\ finish_order = <<>>
    /\ panicked = {}
    /\ io_log = <<>>
    /\ check_summary = <<>>
    /\ reported = 0
    /\ stdout = <<>>
    /\ exit = "none"

\* `if !check_settings.project_path.exists() { println!(..); return Ok(()) }`
NoProject ==
    /\ pc = "start"
    /\ ~project_path.exists
    /\ stdout' = Append(stdout, [kind |-> "no_project"])
    /\ pc' = "done"
    /\ exit' = "Ok"
    /\ UNCHANGED << project_path, check_settings, found_projects, slots, finish_order,
                    panicked, io_log, check_summary, reported >>

\* Directory mode: walk, filter with is_project_file, start the parallel map.
Discover ==
    /\ pc = "start"
    /\ project_path.exists /\ project_path.is_dir
    /\ stdout' = Append(stdout, [kind |-> "searching"])
    /\ found_projects' = SelectSeq(project_path.walk, is_project_file)
    /\ slots' = [i \in 1..Len(found_projects') |-> Pending]
    /\ io_log' = [i \in 1..Len(found_projects') |-> <<>>]
    /\ pc' = "par_map"
    /\ UNCHANGED << project_path, check_settings, finish_order, panicked,
                    check_summary, reported, exit >>

\* One item of the parallel map runs its closure.  The items share nothing,
\* so the closure is one step; the items end in any order.
TaskRun(i) ==
    /\ pc = "par_map"
    /\ i \in 1..Len(found_projects)
    /\ i \notin Ended
    /\ LET outcome == MapClosure(found_projects[i], check_settings) IN
          /\ io_log' = [io_log EXCEPT ![i] = outcome.io]
          /\ finish_order' = Append(finish_order, i)
          /\ IF outcome.status = "Panic"
             THEN /\ panicked' = panicked \cup {i}
                  /\ slots' = slots
             ELSE /\ panicked' = panicked
                  /\ slots' = [slots EXCEPT
                                 ![SlotOf(i, Len(finish_order) + 1)] =
                                     ResultOrError(outcome, found_projects[i].path)]
    /\ UNCHANGED << project_path, check_settings, pc, found_projects,
                    check_summary, reported, stdout, exit >>

\* collect_into_vec returns once every item has ended without a panic.
Collect ==
    /\ pc = "par_map"
    /\ Ended = 1..Len(found_projects)
    /\ panicked = {}
    /\ check_summary' = slots
    /\ pc' = "report"
    /\ UNCHANGED << project_path, check_settings, found_projects, slots, finish_order,
                    panicked, io_log, reported, stdout, exit >>

\* A panic of one item is resumed on the calling thread: check_summary is
\* never filled, the reports are never printed, the process dies.
Unwind ==
    /\ pc = "par_map"
    /\ panicked # {}
    /\ pc' = "aborted"
    /\ exit' = "panic"
    /\ UNCHANGED << project_path, check_settings, found_projects, slots, finish_order,
                    panicked, io_log, check_summary, reported, stdout >>

\* Single-project mode: check_project on the target itself, then push.
CheckSingle ==
    /\ pc = "start"
    /\ project_path.exists /\ ~project_path.is_dir
    /\ LET entry == project_path.walk[1]
           outcome == check_project(entry.path, entry.file, check_settings)
       IN  /\ io_log' = <<outcome.io>>
           /\ finish_order' = <<1>>
           /\ IF outcome.status = "Panic"
              THEN /\ panicked' = {1}
                   /\ check_summary' = check_summary
                   /\ pc' = "aborted"
                   /\ exit' = "panic"
              ELSE /\ panicked' = panicked
                   /\ check_summary' =
                          Append(check_summary, ResultOrError(outcome, entry.path))
                   /\ pc' = "report"
                   /\ exit' = exit
    /\ UNCHANGED << project_path, check_settings, found_projects, slots,
                    reported, stdout >>

\* One iteration of `for check_result in &check_summary { report_check(..) }`
ReportCheck ==
    /\ pc = "report"
    /\ reported < Len(check_summary)
    /\ stdout' = stdout \o report_check(check_summary[reported + 1])
    /\ reported' = reported + 1
    /\ UNCHANGED << project_path, check_settings, pc, found_projects, slots,
                    finish_order, panicked, io_log, check_summary, exit >>

\* `report_check_summary(check_summary); Ok(())`
ReportSummary ==
    /\ pc = "report"
    /\ reported = Len(check_summary)
    /\ stdout' = stdout \o report_check_summary(check_summary)
    /\ pc' = "done"
    /\ exit' = "Ok"
    /\ UNCHANGED << project_path, check_settings, found_projects, slots, finish_order,
                    panicked, io_log, check_summary, reported >>

Next ==
    \/ NoProject
    \/ Discover
    \/ \E i \in 1..MaxEntries : TaskRun(i)
    \/ Collect
    \/ Unwind
    \/ CheckSingle
    \/ ReportCheck
    \/ ReportSummary

Spec == Init /\ [][Next]_vars

\* Every step of the run is taken by a thread that keeps running.
FairSpec == Spec /\ WF_vars(Next)

----------------------------------------------------------------------------
(* Vocabulary of the properties.                                           *)

\* The projects handed to check_project, in order.
CheckedEntries ==
    IF project_path.is_dir THEN found_projects ELSE project_path.walk

\* Where the CheckResults produced so far are: in the slots of the map until
\* collect_into_vec returns, in check_summary afterwards.
ResultsSoFar ==
    IF project_path.is_dir /\ pc \notin {"report", "done"} THEN slots ELSE check_summary

\* The positions holding a CheckResults of the i-th checked project.
ResultSlots(i) ==
    {k \in DOMAIN ResultsSoFar :
        ResultsSoFar[k].project_path = CheckedEntries[i].path}

Collected == pc \in {"report", "done"}

Flag(cat) ==
    CASE cat = "SubProject" -> "check_references"
      [] cat = "Class"      -> "check_classes"
      [] cat = "Module"     -> "check_modules"
      [] cat = "Form"       -> "check_forms"

CategorySet == {Categories[k] : k \in DOMAIN Categories}

\* The entries of one sequence that are about category cat.
OfCategory(items, cat) == SelectSeq(items, LAMBDA x : x.cat = cat)

\* The calls of a log that are about category cat.
CallsOf(log, cat) == {k \in DOMAIN log : log[k].cat = cat}

\* The entries of a CheckResults about reference k of category cat.
EntriesAbout(r, cat, k) ==
    Len(SelectSeq(r.missing_files, LAMBDA x : x.cat = cat /\ x.ref = k))
    + Len(SelectSeq(r.non_english_files, LAMBDA x : x.cat = cat /\ x.ref = k))
    + Len(SelectSeq(r.parsing_errors, LAMBDA x : x.cat = cat /\ x.ref = k))

LastLine == stdout[Len(stdout)]

Bit(n) == IF n # 0 THEN 1 ELSE 0

TotalOf(field) == FoldLen(check_summary, field, 1)

\* What a category's loop appends when it runs alone on an empty result.
OwnEntries(file, cat) ==
    CheckLoop(cat, file.refs[cat], 1,
              [status |-> "Ok", result |-> EmptyResults(0), io |-> <<>>]).result

----------------------------------------------------------------------------
(* C1 .. C10                                                               *)

\* C1: in directory mode a failure inside one project's task becomes that
\* project's own CheckResults; the batch is never aborted and every task that
\* has ended has its CheckResults in the collection.
C1_FailureIsolation ==
    project_path.is_dir =>
        /\ pc # "aborted"
        /\ panicked = {}
        /\ \A i \in Ended : ResultSlots(i) # {}

\* C2: in directory mode the final collection has one element per discovered
\* project and its i-th element is the CheckResults of the i-th discovered
\* project, whatever the order in which the tasks ended.
C2_ResultsInDiscoveryOrder ==
    (project_path.is_dir /\ Collected) =>
        /\ Len(check_summary) = Len(found_projects)
        /\ \A i \in DOMAIN found_projects :
              /\ check_summary[i].project_path = found_projects[i].path
              /\ check_summary[i] =
                    check_project(found_projects[i].path, found_projects[i].file,
                                  check_settings).result

\* Two projects with different results, the second one finishing first.
C2_Witness ==
    /\ project_path.is_dir
    /\ pc = "done"
    /\ finish_order = <<2, 1>>
    /\ Len(check_summary[1].missing_files) # Len(check_summary[2].missing_files)

\* C3: a project whose descriptor cannot be read yields a CheckResults with
\* exactly one parsing_errors entry and nothing else, and none of its
\* references is resolved; in single-project and in directory mode.
C3_UnreadableDescriptorIsOneError ==
    \A i \in Ended :
        CheckedEntries[i].file.desc = "unreadable" =>
            /\ ResultSlots(i) # {}
            /\ \A k \in ResultSlots(i) :
                  /\ Len(ResultsSoFar[k].parsing_errors) = 1
                  /\ ResultsSoFar[k].missing_files = <<>>
                  /\ ResultsSoFar[k].non_english_files = <<>>
            /\ \A c \in CategorySet : CallsOf(io_log[i], c) = {}

\* C4: every WalkDir entry whose traversal failed is kept in the discovery
\* sequence and, without check_project being called for it, gives one
\* CheckResults whose missing_files is one "Failed to load" message and whose
\* other sequences are empty.
C4_FailedEntriesRetained ==
    (project_path.is_dir /\ pc # "start") =>
        \A n \in DOMAIN project_path.walk :
            project_path.walk[n].kind = "err" =>
                /\ \E i \in DOMAIN found_projects : found_projects[i].path = n
                /\ Collected =>
                      \E k \in DOMAIN check_summary :
                          /\ check_summary[k].project_path = n
                          /\ Len(check_summary[k].missing_files) = 1
                          /\ check_summary[k].missing_files[1].msg = "Failed to load"
                          /\ check_summary[k].parsing_errors = <<>>
                          /\ check_summary[k].non_english_files = <<>>

\* C5: in the overall summary for more than one project every count the
\* printed template reports equals the sum of the corresponding sequence
\* lengths over all CheckResults; one missing file in two projects is
\* reported as 1 missing file across 2 projects.
C5_SummaryCountsAreSums ==
    (pc = "done" /\ Len(check_summary) > 1) =>
        /\ LastLine.kind = "summary"
        /\ LastLine.projects = Len(check_summary)
        /\ "missing" \in DOMAIN LastLine =>
              LastLine.missing = TotalOf("missing_files")
        /\ "errors" \in DOMAIN LastLine =>
              LastLine.errors = TotalOf("parsing_errors")
        /\ "non_english" \in DOMAIN LastLine =>
              LastLine.non_english = TotalOf("non_english_files")

\* C6: the overall summary prints exactly one template: of the single-project
\* table when there is exactly one result, of the multi-project table
\* otherwise, the one keyed by (errors > 0, encoding anomalies > 0,
\* missing > 0) of the (summed) counts; in each table exactly one of the 8
\* conditions holds.
C6_ExactlyOneTemplate ==
    (pc = "done" /\ project_path.exists) =>
        /\ Len(SelectSeq(stdout, LAMBDA l : l.kind = "summary")) = 1
        /\ LastLine.kind = "summary"
        /\ LastLine.table = IF Len(check_summary) = 1 THEN "single" ELSE "multi"
        /\ LastLine.case = << Bit(TotalOf("parsing_errors")),
                              Bit(TotalOf("non_english_files")),
                              Bit(TotalOf("missing_files")) >>
        /\ Cardinality({k \in 1..8 : MultiCases(check_summary)[k].cond}) = 1
        /\ \A i \in DOMAIN check_summary :
              Cardinality({k \in 1..8 : SingleCases(check_summary[i])[k].cond}) = 1

\* Two results whose sums have errors and missing files but no encoding
\* anomaly.
C6_Witness ==
    /\ pc = "done"
    /\ Len(check_summary) = 2
    /\ LastLine.kind = "summary"
    /\ LastLine.case = <<1, 0, 1>>
    /\ Len(check_summary[1].parsing_errors) = 0

\* C7: a run on an existing target path eventually ends with Ok, with a
\* CheckResults for every discovered project, every detail report and the
\* overall summary printed.
C7_RunCompletesOk ==
    project_path.exists =>
        <>(/\ pc = "done"
           /\ exit = "Ok"
           /\ Len(check_summary) = Len(CheckedEntries)
           /\ reported = Len(check_summary)
           /\ LastLine.kind = "summary")

C9_BadDescriptorIsOneError ==
    \A i \in Ended :
        CheckedEntries[i].file.desc = "parse_error" =>
            /\ i \notin panicked
            /\ ResultSlots(i) # {}
            /\ \A k \in ResultSlots(i) :
                  /\ Len(ResultsSoFar[k].parsing_errors) = 1
                  /\ ResultsSoFar[k].missing_files = <<>>
                  /\ ResultsSoFar[k].non_english_files = <<>>
            /\ \A c \in CategorySet : CallsOf(io_log[i], c) = {}
            /\ (pc = "done" /\ Len(check_summary) = 1) =>
                  /\ LastLine.kind = "summary"
                  /\ LastLine.table = "single"
                  /\ LastLine.case = <<1, 0, 0>>
                  /\ LastLine.errors = 1

\* A lone project with an unparsable descriptor, checked with every category
\* enabled, after the summary.
C9_Witness ==
    /\ pc = "done"
    /\ ~project_path.is_dir
    /\ Len(check_summary) = 1
    /\ CheckedEntries[1].file = BadProject
    /\ \A c \in CategorySet : check_settings[Flag(c)]

\* C10: for every project checked whose descriptor parsed, each reference of
\* an enabled category is stat'd exactly once and gets exactly one outcome:
\* one entry in exactly one of the three sequences (missing, encoding
\* anomaly, parse failure) or, for a valid target, none; the three lengths
\* together count the resolved references that are not valid.
C10_EveryReferenceOneOutcome ==
    \A i \in Ended :
        LET file == CheckedEntries[i].file IN
        file.desc = "valid" =>
            /\ ResultSlots(i) # {}
            /\ \A k \in ResultSlots(i) :
                  LET r == ResultsSoFar[k]
                      resolved == {x \in DOMAIN io_log[i] : io_log[i][x].op = "stat"}
                      valid == {x \in resolved :
                                  LET ev == io_log[i][x] IN
                                  \/ file.refs[ev.cat][ev.ref] = "valid"
                                  \/ /\ ev.cat = "SubProject"
                                     /\ file.refs[ev.cat][ev.ref] # "missing"}
                  IN  /\ \A c \in CategorySet :
                            check_settings[Flag(c)] =>
                                \A n \in DOMAIN file.refs[c] :
                                    /\ Cardinality({x \in resolved :
                                           /\ io_log[i][x].cat = c
                                           /\ io_log[i][x].ref = n}) = 1
                                    /\ EntriesAbout(r, c, n) <= 1
                      /\ Len(r.missing_files) + Len(r.non_english_files)
                         + Len(r.parsing_errors)
                            = Cardinality(resolved) - Cardinality(valid)

----------------------------------------------------------------------------
(* C11 .. C13                                                              *)

\* The entries of one sequence about reference k of category cat.
CountAbout(items, cat, k) ==
    Len(SelectSeq(items, LAMBDA x : x.cat = cat /\ x.ref = k))

FileCategories == {"Class", "Module", "Form"}

\* C11: in every CheckResults returned, a class, module or form reference
\* whose file was parsed and failed to parse has exactly one entry: in
\* non_english_files (and none in parsing_errors) when the failure kind is
\* LikelyNonEnglishCharacterSet, in parsing_errors (and none in
\* non_english_files) otherwise.
C11_ParseFailureOneBucket ==
    \A i \in Ended \ panicked :
        \A k \in ResultSlots(i), x \in DOMAIN io_log[i] :
            LET r == ResultsSoFar[k]
                ev == io_log[i][x]
            IN  (ev.op = "parse" /\ ev.cat \in FileCategories) =>
                    LET st == CheckedEntries[i].file.refs[ev.cat][ev.ref]
                        ne == CountAbout(r.non_english_files, ev.cat, ev.ref)
                        pe == CountAbout(r.parsing_errors, ev.cat, ev.ref)
                    IN  /\ st = "non_english" => (ne = 1 /\ pe = 0)
                        /\ st = "parse_error" => (ne = 0 /\ pe = 1)
                        /\ st = "valid" => (ne = 0 /\ pe = 0)
                        /\ CountAbout(r.missing_files, ev.cat, ev.ref) = 0

\* A returned CheckResults of the project whose two class files fail to
\* parse, one of each kind.
C11_Witness ==
    \E i \in Ended \ panicked :
        /\ CheckedEntries[i].file = UnreadableRefProject
        /\ check_settings.check_classes
        /\ \E k \in ResultSlots(i) :
              /\ CountAbout(ResultsSoFar[k].parsing_errors, "Class", 1) = 1
              /\ CountAbout(ResultsSoFar[k].non_english_files, "Class", 2) = 1

\* C12: a reference of an enabled category whose resolved path does not
\* exist is stat'd, is never read or parsed, and the next call is the stat of
\* the next reference of the category; in the CheckResults returned it has
\* exactly one missing_files entry and no entry in parsing_errors or
\* non_english_files.
C12_MissingReferenceOneEntry ==
    \A i \in Ended :
        LET file == CheckedEntries[i].file
            log == io_log[i]
        IN  /\ \A x \in DOMAIN log :
                  (log[x].op = "stat" /\ file.refs[log[x].cat][log[x].ref] = "missing") =>
                      /\ \A y \in DOMAIN log :
                            (log[y].cat = log[x].cat /\ log[y].ref = log[x].ref) => y = x
                      /\ log[x].ref < Len(file.refs[log[x].cat]) =>
                            /\ x + 1 \in DOMAIN log
                            /\ log[x + 1] = Event("stat", log[x].cat, log[x].ref + 1)
            /\ (i \notin panicked /\ file.desc = "valid") =>
                  \A k \in ResultSlots(i), c \in CategorySet :
                      check_settings[Flag(c)] =>
                          \A n \in DOMAIN file.refs[c] :
                              file.refs[c][n] = "missing" =>
                                  /\ \E x \in DOMAIN log : log[x] = Event("stat", c, n)
                                  /\ CountAbout(ResultsSoFar[k].missing_files, c, n) = 1
                                  /\ CountAbout(ResultsSoFar[k].parsing_errors, c, n) = 0
                                  /\ CountAbout(ResultsSoFar[k].non_english_files, c, n) = 0

\* A returned CheckResults of the project whose first class file and second
\* sub-project are missing: both are reported and the second class was
\* stat'd after the first.
C12_Witness ==
    \E i \in Ended \ panicked :
        /\ CheckedEntries[i].file = MixedProject
        /\ check_settings.check_classes
        /\ check_settings.check_references
        /\ \E x \in DOMAIN io_log[i] : io_log[i][x] = Event("stat", "Class", 2)
        /\ \E k \in ResultSlots(i) :
              /\ CountAbout(ResultsSoFar[k].missing_files, "Class", 1) = 1
              /\ CountAbout(ResultsSoFar[k].missing_files, "SubProject", 2) = 1

\* The lines of the detail reports printed so far.
Detail == SelectSeq(stdout, LAMBDA l : l.kind \in {"header", "title", "item"})

HeaderPos == {x \in DOMAIN Detail : Detail[x].kind = "header"}

\* The position in Detail of the j-th project identity line.
NthHeader(j) ==
    CHOOSE x \in HeaderPos : Cardinality({y \in HeaderPos : y <= x}) = j

\* The lines printed after the j-th project identity and before the next.
LinesUnder(j) ==
    SubSeq(Detail, NthHeader(j) + 1,
           IF j = Cardinality(HeaderPos) THEN Len(Detail) ELSE NthHeader(j + 1) - 1)

HasEntries(r) ==
    Len(r.missing_files) + Len(r.parsing_errors) + Len(r.non_english_files) # 0

\* The results already passed to report_check that have something to print.
ReportedWithEntries == SelectSeq(SubSeq(check_summary, 1, reported), HasEntries)

SectionRank(section) ==
    CASE section = "Missing Files"     -> 1
      [] section = "Parsing Errors"    -> 2
      [] section = "Non-English Files" -> 3

\* Under one project identity: the section's entries are all of `items`, in
\* order, below one title; nothing of the section when `items` is empty.
SectionPrinted(lines, section, items) ==
    LET shown == SelectSeq(lines, LAMBDA l : l.kind = "item" /\ l.section = section)
        titles == SelectSeq(lines, LAMBDA l : l.kind = "title" /\ l.section = section)
    IN  /\ Len(shown) = Len(items)
        /\ \A x \in DOMAIN items : shown[x].item = items[x]
        /\ Len(titles) = IF Len(items) # 0 THEN 1 ELSE 0

\* C13: the detail report prints nothing for a CheckResults whose three
\* sequences are empty; for any other it prints the project identity first,
\* then only the non-empty categories, each with all its entries in sequence
\* order under its title, in the order missing files, parsing errors,
\* non-English files.
C13_DetailReportLayout ==
    /\ Cardinality(HeaderPos) = Len(ReportedWithEntries)
    /\ Detail # <<>> => Detail[1].kind = "header"
    /\ \A j \in DOMAIN ReportedWithEntries :
          LET r == ReportedWithEntries[j]
              lines == LinesUnder(j)
          IN  /\ Detail[NthHeader(j)].project_path = r.project_path
              /\ SectionPrinted(lines, "Missing Files", r.missing_files)
              /\ SectionPrinted(lines, "Parsing Errors", r.parsing_errors)
              /\ SectionPrinted(lines, "Non-English Files", r.non_english_files)
              /\ \A a, b \in DOMAIN lines :
                    a < b =>
                        /\ SectionRank(lines[a].section) <= SectionRank(lines[b].section)
                        /\ lines[a].section = lines[b].section => lines[b].kind = "item"

\* Two results reported: one with nothing to print, one with entries in all
\* three categories and two missing files.
C13_Witness ==
    /\ pc = "done"
    /\ Len(check_summary) = 2
    /\ reported = 2
    /\ ~HasEntries(check_summary[1])
    /\ Len(check_summary[2].missing_files) = 2
    /\ Len(check_summary[2].parsing_errors) = 1
    /\ Len(check_summary[2].non_english_files) = 1

====
